---- MODULE Spec2Model ----
(***************************************************************************)
(* Model of the blockchainblock crate: BlockchainBlock::new,               *)
(* check_value_inblock, calculate_merkle_root, calculate_merkle_hash,      *)
(* Hashable::calculate_hash and the Byteable implementations.              *)
(*                                                                         *)
(* Byte strings are sequences of tokens.  A token is either one byte       *)
(* (k = "u8", n = its value) or one 32-byte BlockHash: a filled array      *)
(* [n; BLOCKHASHLEN] (k = "fill") or a SHA-256 digest (k = "sha256",       *)
(* pre = the digested byte string).  The digest is the free, collision-    *)
(* free hash: two digests are equal iff their inputs are equal.            *)
(***************************************************************************)
EXTENDS Integers, Sequences, FiniteSets, TLC

VARIABLES
    block,   \* the BlockchainBlock the calls are made on
    prior,   \* the block as new returned it (Spec, SpecRun); under SpecPair
             \* the block built before this one
    last,    \* the last call: its arguments, what it returned, the
             \* invocations of calculate_merkle_root it made, the root it got
    pc,      \* SpecRun: "idle", or the call in progress and where it stands
    stack,   \* SpecRun: the frames of calculate_merkle_root, innermost last
    ret      \* SpecRun: the value a returning calculate_merkle_root hands back

vars == <<block, prior, last, pc, stack, ret>>

(* ---------------------------------------------------------------- bounds *)
\* longest payload
MaxLen == 3
\* deepest recursion of calculate_merkle_root the stepwise model follows
MaxStack == 4

(* ------------------------------------------------------------- constants *)
VERSION == 1
BLOCKHASHLEN == 32
I32LEN == 4
U64LEN == 8

(* ---------------------------------------------------------------- tokens *)
U8(n) == [k |-> "u8", n |-> n, pre |-> <<>>]

\* [n; BLOCKHASHLEN]: a BlockHash whose bytes all equal n
Filled(n) == [k |-> "fill", n |-> n, pre |-> <<>>]

\* digest(Algorithm::SHA256, bytes) copied into a BlockHash
digest(bytes) == [k |-> "sha256", n |-> BLOCKHASHLEN, pre |-> bytes]

\* Option<BlockHash>
None == <<>>
Some(h) == <<h>>

(* ------------------------------------------------------ leaf values (T) *)
I32(n) == [ty |-> "i32", n |-> n, s |-> <<>>]
Str(s) == [ty |-> "String", n |-> 0, s |-> s]

RECURSIVE to_le_bytes(_, _)
\* the w low bytes of x, least significant first (two's complement)
to_le_bytes(x, w) ==
    IF w = 0 THEN <<>> ELSE <<U8(x % 256)>> \o to_le_bytes(x \div 256, w - 1)

\* impl Byteable for i32 / impl Byteable for String
bytes(x) ==
    IF x.ty = "i32" THEN to_le_bytes(x.n, I32LEN)
    ELSE [i \in 1..Len(x.s) |-> U8(x.s[i])]

RECURSIVE slice_bytes(_)
\* impl Byteable for [T]: the elements' bytes, in order, nothing in between
slice_bytes(xs) ==
    IF xs = <<>> THEN <<>> ELSE bytes(Head(xs)) \o slice_bytes(Tail(xs))

(* ----------------------------------------------------------- Merkle root *)
calculate_merkle_hash(block_left, block_right) ==
    digest(<<block_left, block_right>>)

\* slice::split_at(mid): <<the first mid elements, the rest>>
split_at(blocks, mid) ==
    <<SubSeq(blocks, 1, mid), SubSeq(blocks, mid + 1, Len(blocks))>>

\* mutant of halves: the midpoint rounded up
halves_ceil(blocks) == split_at(blocks, (Len(blocks) + 1) \div 2)

\* blocks.split_at(size/2)
halves(blocks) == split_at(blocks, Len(blocks) \div 2)

RECURSIVE calculate_merkle_root(_)

\* mutant of calculate_merkle_root: the pair case reads blocks[0] twice
calculate_merkle_root_pair_first(blocks) ==
    LET size == Len(blocks) IN
    IF size \in {1, 2} THEN digest(bytes(blocks[1]) \o bytes(blocks[1]))
    ELSE calculate_merkle_hash(calculate_merkle_root(halves(blocks)[1]),
                               calculate_merkle_root(halves(blocks)[2]))

\* mutant of calculate_merkle_root: a single leaf is hashed without being
\* duplicated
calculate_merkle_root_single_once(blocks) ==
    LET size == Len(blocks) IN
    IF size = 1 THEN digest(bytes(blocks[1]))
    ELSE IF size = 2 THEN digest(bytes(blocks[1]) \o bytes(blocks[2]))
    ELSE calculate_merkle_hash(calculate_merkle_root(halves(blocks)[1]),
                               calculate_merkle_root(halves(blocks)[2]))

calculate_merkle_root(blocks) ==
    LET size == Len(blocks) IN
    IF size = 1 THEN digest(bytes(blocks[1]) \o bytes(blocks[1]))
    ELSE IF size = 2 THEN digest(bytes(blocks[1]) \o bytes(blocks[2]))
    ELSE calculate_merkle_hash(calculate_merkle_root(halves(blocks)[1]),
                               calculate_merkle_root(halves(blocks)[2]))

RECURSIVE merkle_calls(_)
\* the number of invocations of calculate_merkle_root one call on blocks makes
merkle_calls(blocks) ==
    IF Len(blocks) \in {1, 2} THEN 1
    ELSE 1 + merkle_calls(halves(blocks)[1]) + merkle_calls(halves(blocks)[2])

(* ------------------------------------------------------------ block hash *)
\* mutant of header_bytes: the previous hash is left out
header_bytes_no_prev(self) ==
    slice_bytes(self.data)
    \o to_le_bytes(self.timestamp, U64LEN)
    \o to_le_bytes(self.nonce, U64LEN)
    \o <<self.merkle_root>>
    \o to_le_bytes(self.version, 1)

\* the byte string calculate_hash digests
header_bytes(self) ==
    self.prev_hash
    \o slice_bytes(self.data)
    \o to_le_bytes(self.timestamp, U64LEN)
    \o to_le_bytes(self.nonce, U64LEN)
    \o <<self.merkle_root>>
    \o to_le_bytes(self.version, 1)

calculate_hash(self) == [self EXCEPT !.curr_hash = digest(header_bytes(self))]

(* ----------------------------------------------------------- constructor *)
\* the struct literal of new: both hashes zeroed
new_literal(prev_hash, data, timestamp, nonce) ==
    [ prev_hash |-> prev_hash, data |-> data, timestamp |-> timestamp,
      merkle_root |-> Filled(0), nonce |-> nonce, version |-> VERSION,
      curr_hash |-> Filled(0) ]

\* mutant of has_payload: a single leaf counts as no payload
has_payload_two(data) == Len(data) > 1

\* mutant of has_payload: the guard is dropped
has_payload_always(data) == TRUE

\* the guard of new: data.len() > 0
has_payload(data) == Len(data) > 0

\* if data.len() > 0 { block.merkle_root = block.calculate_merkle_root(data); }
new_merkle(b) ==
    IF has_payload(b.data)
    THEN [b EXCEPT !.merkle_root = calculate_merkle_root(b.data)]
    ELSE b

\* mutant of new: the hash is taken before the Merkle root is set
new_hash_first(prev_hash, data, timestamp, nonce) ==
    new_merkle(calculate_hash(new_literal(prev_hash, data, timestamp, nonce)))

new(prev_hash, data, timestamp, nonce) ==
    calculate_hash(new_merkle(new_literal(prev_hash, data, timestamp, nonce)))

\* invocations of calculate_merkle_root made by new
new_calls(data) == IF has_payload(data) THEN merkle_calls(data) ELSE 0

(* ----------------------------------------------------------- tamper check *)
\* mutant of out_of_range: > for >=
out_of_range_off_by_one(self, position) == position > Len(self.data)

\* the guard of check_value_inblock: position >= self.data.len()
out_of_range(self, position) == position >= Len(self.data)

\* mutant of check_value_inblock: the recomputed root is compared with
\* curr_hash
check_value_inblock_vs_curr_hash(self, data, position) ==
    IF out_of_range(self, position)
    THEN [self |-> self, result |-> FALSE, panic |-> FALSE, calls |-> 0,
          root |-> Filled(0)]
    ELSE LET temp == [self.data EXCEPT ![position + 1] = data] IN
         [self |-> self,
          result |-> (calculate_merkle_root(temp) = self.curr_hash),
          panic |-> FALSE, calls |-> merkle_calls(temp),
          root |-> calculate_merkle_root(temp)]

\* mutant of check_value_inblock: the candidate is written into the block's
\* own payload instead of a copy
check_value_inblock_in_place(self, data, position) ==
    IF out_of_range(self, position)
    THEN [self |-> self, result |-> FALSE, panic |-> FALSE, calls |-> 0,
          root |-> Filled(0)]
    ELSE LET temp == [self.data EXCEPT ![position + 1] = data] IN
         [self |-> [self EXCEPT !.data = temp],
          result |-> (calculate_merkle_root(temp) = self.merkle_root),
          panic |-> FALSE, calls |-> merkle_calls(temp),
          root |-> calculate_merkle_root(temp)]

\* outcome of check_value_inblock: the block afterwards, the returned value,
\* whether it panicked (temp[position] out of bounds), the invocations of
\* calculate_merkle_root it made, and the root it recomputed
check_value_inblock(self, data, position) ==
    IF out_of_range(self, position)
    THEN [self |-> self, result |-> FALSE, panic |-> FALSE, calls |-> 0,
          root |-> Filled(0)]
    ELSE IF position >= Len(self.data)
    THEN [self |-> self, result |-> FALSE, panic |-> TRUE, calls |-> 0,
          root |-> Filled(0)]
    ELSE LET temp == [self.data EXCEPT ![position + 1] = data] IN
         [self |-> self,
          result |-> (calculate_merkle_root(temp) = self.merkle_root),
          panic |-> FALSE, calls |-> merkle_calls(temp),
          root |-> calculate_merkle_root(temp)]

(* ----------------------------------------------------------------- inputs *)
I32Values == {I32(5), I32(-2)}
\* "", "a", "aa"
StrValues == {Str(<<>>), Str(<<97>>), Str(<<97, 97>>)}
Values == I32Values \cup StrValues

RECURSIVE SeqsUpTo(_, _)
SeqsUpTo(S, n) ==
    IF n = 0 THEN {<<>>}
    ELSE LET shorter == SeqsUpTo(S, n - 1) IN
         shorter \cup {Append(s, x) : s \in {t \in shorter : Len(t) = n - 1}, x \in S}

\* payloads: slices of one element type
Payloads == SeqsUpTo(I32Values, MaxLen) \cup SeqsUpTo(StrValues, MaxLen)

\* the block of the first doctest of new
DoctestBlock == new(None, <<I32(5)>>, 4, 3)

PrevHashes == {None, Some(Filled(1)), Some(DoctestBlock.curr_hash)}
Timestamps == {4, 1524885322}
Nonces == {3, 1}
Positions == 0..MaxLen

\* candidates of the block's element type
Candidates(self) ==
    IF self.data = <<>> THEN Values
    ELSE IF self.data[1].ty = "i32" THEN I32Values ELSE StrValues

\* the record of the last call made on the block
Call(op, calls) ==
    [op |-> op, value |-> I32(0), position |-> 0, result |-> FALSE,
     panic |-> FALSE, calls |-> calls, root |-> Filled(0)]

(* ----------------------------------------- specification: one block's life *)
\* the state after BlockchainBlock::new returned
Init ==
    \E prev_hash \in PrevHashes, data \in Payloads,
       timestamp \in Timestamps, nonce \in Nonces :
        /\ block = new(prev_hash, data, timestamp, nonce)
        /\ prior = block
        /\ last = Call("new", new_calls(data))
        /\ pc = "idle"
        /\ stack = <<>>
        /\ ret = None

Check ==
    \E data \in Candidates(block), position \in Positions :
        LET r == check_value_inblock(block, data, position) IN
        /\ block' = r.self
        /\ last' = [op |-> "check", value |-> data, position |-> position,
                    result |-> r.result, panic |-> r.panic, calls |-> r.calls,
                    root |-> r.root]
        /\ UNCHANGED <<prior, pc, stack, ret>>

CalculateHash ==
    /\ block' = calculate_hash(block)
    /\ last' = Call("calculate_hash", 0)
    /\ UNCHANGED <<prior, pc, stack, ret>>

Next == Check \/ CalculateHash

Spec == Init /\ [][Next]_vars

(* ------------------------------- specification: a second block is built *)
\* new again, with the same payload and other header arguments
NewSamePayload ==
    \E prev_hash \in PrevHashes, timestamp \in Timestamps, nonce \in Nonces :
        /\ block' = new(prev_hash, block.data, timestamp, nonce)
        /\ prior' = block
        /\ last' = Call("new", new_calls(block.data))
        /\ UNCHANGED <<pc, stack, ret>>

\* new again, with the same header arguments and one more leaf
NewAppended ==
    \E x \in Candidates(block) :
        /\ Len(block.data) < MaxLen
        /\ block' = new(block.prev_hash, Append(block.data, x),
                        block.timestamp, block.nonce)
        /\ prior' = block
        /\ last' = Call("new", new_calls(Append(block.data, x)))
        /\ UNCHANGED <<pc, stack, ret>>

NextPair == NewSamePayload \/ NewAppended

SpecPair == Init /\ [][NextPair]_vars

(* ----------------- specification: the calls, one recursion step at a time *)
\* a call frame of calculate_merkle_root: its argument, where it stands
\* ("enter", or waiting for its "left" or "right" recursive call) and the
\* left root once it has it
Frame(blocks) == [blocks |-> blocks, st |-> "enter", left |-> Filled(0)]

Top == stack[Len(stack)]
Pop == SubSeq(stack, 1, Len(stack) - 1)

\* new has built the struct literal and is about to test data.len() > 0
InitRun ==
    \E data \in Payloads :
        /\ block = new_literal(None, data, 4, 3)
        /\ prior = block
        /\ last = Call("new", 0)
        /\ pc = IF has_payload(data) THEN "new_merkle" ELSE "new_hash"
        /\ stack = IF has_payload(data) THEN <<Frame(data)>> ELSE <<>>
        /\ ret = None

\* calculate_merkle_root is entered: match size { 1 | 2 => ..., _ => ... }
MerkleEnter ==
    /\ stack # <<>> /\ ret = None /\ Top.st = "enter"
    /\ LET blocks == Top.blocks
           size == Len(blocks) IN
       IF size \in {1, 2}
       THEN /\ ret' = Some(digest(bytes(blocks[1]) \o
                                  bytes(blocks[IF size = 1 THEN 1 ELSE 2])))
            /\ stack' = Pop
       ELSE /\ Len(stack) < MaxStack
            /\ stack' = Append([stack EXCEPT ![Len(stack)].st = "left"],
                               Frame(halves(blocks)[1]))
            /\ ret' = ret
    /\ last' = [last EXCEPT !.calls = @ + 1]
    /\ UNCHANGED <<block, prior, pc>>

\* a recursive call returned to the frame that made it
MerkleReturn ==
    /\ stack # <<>> /\ ret # None
    /\ IF Top.st = "left"
       THEN /\ stack' = Append([stack EXCEPT ![Len(stack)].st = "right",
                                             ![Len(stack)].left = ret[1]],
                               Frame(halves(Top.blocks)[2]))
            /\ ret' = None
       ELSE /\ stack' = Pop
            /\ ret' = Some(calculate_merkle_hash(Top.left, ret[1]))
    /\ UNCHANGED <<block, prior, last, pc>>

\* block.merkle_root = <the root calculate_merkle_root returned>
NewSetRoot ==
    /\ pc = "new_merkle" /\ stack = <<>> /\ ret # None
    /\ block' = [block EXCEPT !.merkle_root = ret[1]]
    /\ ret' = None
    /\ pc' = "new_hash"
    /\ UNCHANGED <<prior, last, stack>>

\* block.calculate_hash(); block
NewHash ==
    /\ pc = "new_hash"
    /\ block' = calculate_hash(block)
    /\ pc' = "idle"
    /\ UNCHANGED <<prior, last, stack, ret>>

\* check_value_inblock up to its call of calculate_merkle_root
CheckStart ==
    /\ pc = "idle"
    /\ \E data \in Candidates(block), position \in Positions :
        IF out_of_range(block, position)
        THEN /\ last' = [Call("check", 0) EXCEPT !.value = data,
                                                  !.position = position]
             /\ UNCHANGED <<block, prior, pc, stack, ret>>
        ELSE /\ position < Len(block.data)
             /\ last' = [Call("check", 0) EXCEPT !.value = data,
                                                  !.position = position]
             /\ stack' = <<Frame([block.data EXCEPT ![position + 1] = data])>>
             /\ pc' = "check_merkle"
             /\ UNCHANGED <<block, prior, ret>>

\* ... == self.merkle_root
CheckFinish ==
    /\ pc = "check_merkle" /\ stack = <<>> /\ ret # None
    /\ last' = [last EXCEPT !.result = (ret[1] = block.merkle_root),
                            !.root = ret[1]]
    /\ ret' = None
    /\ pc' = "idle"
    /\ UNCHANGED <<block, prior, stack>>

RunCalculateHash ==
    /\ pc = "idle"
    /\ block' = calculate_hash(block)
    /\ last' = Call("calculate_hash", 0)
    /\ UNCHANGED <<prior, pc, stack, ret>>

\* the steps inside a call: a started call runs on until it returns
Step == MerkleEnter \/ MerkleReturn \/ NewSetRoot \/ NewHash \/ CheckFinish

NextRun == Step \/ CheckStart \/ RunCalculateHash

SpecRun == InitRun /\ [][NextRun]_vars /\ WF_vars(Step)

(* ------------------------------------------------------------- claims *)
\* the last call was check_value_inblock with a position inside the payload
CheckedInRange ==
    last.op = "check" /\ last.position < Len(block.data)

\* the leaf the last check_value_inblock was asked about
LeafAtPosition == block.data[last.position + 1]

\* C1: check_value_inblock on the value the block was built with, at its own
\* position, returns true.
C1_TruePositive ==
    (CheckedInRange /\ last.value = LeafAtPosition)
        => (last.result /\ ~last.panic)

C1_Witness ==
    /\ CheckedInRange /\ Len(block.data) = 3 /\ last.position = 2
    /\ last.value = LeafAtPosition /\ last.result

\* C2: check_value_inblock on a value different from the one the block was
\* built with at that position returns false, for payloads of every length.
C2_TrueNegative ==
    (CheckedInRange /\ last.value # LeafAtPosition) => ~last.result

C2_Witness ==
    /\ CheckedInRange /\ Len(block.data) = 3 /\ last.position = 1
    /\ last.value # LeafAtPosition /\ ~last.result /\ last.calls = 3

\* C3: check_value_inblock with a position at or beyond the payload's length
\* returns false, without failing and without computing any Merkle root.
C3_OutOfRange ==
    (last.op = "check" /\ last.position >= Len(block.data))
        => (~last.result /\ ~last.panic /\ last.calls = 0)

C3_Witness ==
    /\ last.op = "check" /\ Len(block.data) = 2 /\ last.position = 2
    /\ ~last.result /\ last.calls = 0

RECURSIVE M(_)
\* the reference Merkle root of C4
M(s) ==
    LET n == Len(s) IN
    IF n = 1 THEN digest(bytes(s[1]) \o bytes(s[1]))
    ELSE IF n = 2 THEN digest(bytes(s[1]) \o bytes(s[2]))
    ELSE digest(<<M(SubSeq(s, 1, n \div 2)), M(SubSeq(s, n \div 2 + 1, n))>>)

\* C4: every Merkle root the program computes, in new and in
\* check_value_inblock, is the reference root M of the leaves it was computed
\* from.
C4_MerkleReference ==
    /\ Len(block.data) > 0 => block.merkle_root = M(block.data)
    /\ CheckedInRange =>
          last.root = M([block.data EXCEPT ![last.position + 1] = last.value])

C4_Witness ==
    /\ Len(block.data) = 3
    /\ block.merkle_root =
          digest(<<digest(bytes(block.data[1]) \o bytes(block.data[1])),
                   digest(bytes(block.data[2]) \o bytes(block.data[3]))>>)

\* the 8 little-endian bytes of an unsigned x below 2^32
LittleEndian64(x) ==
    [i \in 1..8 |-> U8(IF i <= 4 THEN (x \div 256 ^ (i - 1)) % 256 ELSE 0)]

\* C5: curr_hash is one digest of: the previous hash if any, the payload
\* elements' bytes in order, the little-endian timestamp, the little-endian
\* nonce, the Merkle root the block holds, the version byte.
C5_CurrHash ==
    block.curr_hash =
        digest((IF block.prev_hash = None THEN <<>> ELSE <<block.prev_hash[1]>>)
               \o slice_bytes(block.data)
               \o LittleEndian64(block.timestamp)
               \o LittleEndian64(block.nonce)
               \o <<block.merkle_root>>
               \o <<U8(VERSION)>>)

C5_Witness ==
    /\ last.op = "new" /\ block.prev_hash = Some(Filled(1))
    /\ Len(block.data) = 2 /\ block.timestamp = 1524885322
    /\ block.merkle_root # Filled(0) /\ block.curr_hash # Filled(0)

\* the two blocks were built from the same payload, timestamp and nonce
SameButPrevHash ==
    /\ block.data = prior.data
    /\ block.timestamp = prior.timestamp
    /\ block.nonce = prior.nonce

\* C6: two blocks built from the same payload, timestamp and nonce and from
\* different previous hashes have different curr_hash.
C6_ChainSensitivity ==
    (SameButPrevHash /\ block.prev_hash # prior.prev_hash)
        => block.curr_hash # prior.curr_hash

C6_Witness ==
    /\ SameButPrevHash /\ prior.prev_hash = None
    /\ block.prev_hash = Some(Filled(1)) /\ Len(block.data) = 2
    /\ block.curr_hash # prior.curr_hash

\* C7: a block built from an empty payload holds the all-zero sentinel as
\* merkle_root, computed no Merkle root, and has its curr_hash taken over the
\* header with that sentinel; a block built from a non-empty payload holds the
\* Merkle root of its payload.
C7_EmptyPayloadSentinel ==
    /\ block.data = <<>> =>
          /\ block.merkle_root = Filled(0)
          /\ last.op = "new" => last.calls = 0
          /\ block.curr_hash =
                digest(header_bytes([block EXCEPT !.merkle_root = Filled(0)]))
    /\ block.data # <<>> =>
          /\ block.merkle_root = calculate_merkle_root(block.data)
          /\ last.op = "new" => last.calls > 0

C7_Witness ==
    /\ block.data = <<>> /\ last.op = "new" /\ block.prev_hash # None
    /\ block.merkle_root = Filled(0) /\ block.curr_hash # Filled(0)

\* every call of calculate_merkle_root in progress has a non-empty argument,
\* strictly shorter than its caller's
FramesShrink ==
    \A i \in 1..Len(stack) :
        /\ Len(stack[i].blocks) > 0
        /\ i > 1 => Len(stack[i].blocks) < Len(stack[i - 1].blocks)

\* C8: calculate_merkle_root is never entered with an empty sequence, every
\* recursive call gets a strictly shorter non-empty sequence, and every
\* started call of new and check_value_inblock returns.
C8_Terminates ==
    /\ []FramesShrink
    /\ (pc # "idle") ~> (pc = "idle")

C8_Witness ==
    /\ pc = "idle" /\ last.op = "check" /\ Len(block.data) = 3
    /\ last.calls = 3 /\ stack = <<>>

\* C9: after construction no call of check_value_inblock or calculate_hash
\* changes any field of the block (prior is the block as new returned it).
C9_FieldsAsConstructed == block = prior

C9_Witness ==
    /\ CheckedInRange /\ last.value # LeafAtPosition
    /\ block.data = prior.data /\ block.merkle_root = prior.merkle_root

\* the block was built from [x, x] and the block before it from [x], with the
\* same previous hash, timestamp and nonce
SingleThenDouble ==
    /\ Len(prior.data) = 1
    /\ block.data = prior.data \o prior.data
    /\ block.prev_hash = prior.prev_hash
    /\ block.timestamp = prior.timestamp
    /\ block.nonce = prior.nonce

\* C10 as stated: the blocks of [x] and [x, x] have the same merkle_root and
\* different curr_hash, for every x.
C10_AsStated ==
    SingleThenDouble =>
        /\ block.merkle_root = prior.merkle_root
        /\ block.curr_hash # prior.curr_hash

\* C10, amended: the blocks of [x] and [x, x] have the same merkle_root, and
\* their curr_hash differ exactly when x has a non-empty byte representation.
C10_SameRootForDoubledLeaf ==
    SingleThenDouble =>
        /\ block.merkle_root = prior.merkle_root
        /\ (block.curr_hash # prior.curr_hash) <=> (bytes(prior.data[1]) # <<>>)

C10_Witness ==
    /\ SingleThenDouble /\ prior.data = <<Str(<<97>>)>>
    /\ block.merkle_root = prior.merkle_root
    /\ block.curr_hash # prior.curr_hash

====
